---- MODULE Spec2Model ----
(***************************************************************************)
(* Model of monday-bot/agent.py: the SSE MCP tool adapter                  *)
(* (build_sse_tools and the make_call closures it returns), the module     *)
(* level start-up that builds the two tool bundles and the agent, and the  *)
(* async CLI chat loop of main().                                          *)
(***************************************************************************)
EXTENDS Integers, Sequences, FiniteSets, TLC

VARIABLES
    pc,             \* position of the program
    monday_token,   \* os.environ.get("MONDAY_API_TOKEN", "")
    served,         \* the responses the remote ends gave to GET {endpoint}/mcp, in call order
    gets,           \* the GET requests issued by build_sse_tools, in call order
    frames,         \* one closure environment per build_sse_tools call: endpoint, headers, t
    log,            \* records written by logging.warning
    call_args,      \* arguments of the build_sse_tools call under test
    returned,       \* the lists returned by the build_sse_tools calls under test
    make_tools,     \* module global make_tools
    monday_tools,   \* module global monday_tools
    agent,          \* module global agent (LlmAgent)
    last_call,      \* the most recent invocation of a make_call closure
    sessions,       \* the sessions held by the InMemorySessionService
    session,        \* local variable session of main()
    created,        \* number of create_session calls that succeeded
    session_id,     \* local variable session_id of main()
    user_id,        \* local variable user_id of main()
    user,           \* local variable user of main()
    seen,           \* the events the current turn's response stream has yielded
    final_response, \* local variable final_response of main()
    out,            \* what the most recent print statements wrote
    turn_end,       \* how the turn of the last input ended: "" (not yet), "ok", or the exception caught
    run_args,       \* the arguments of the runner.run_async call of the last input
    uncaught        \* the exception that left main(), "" when none

envVars == <<monday_token, call_args>>
netVars == <<served, gets, frames, log>>
bundleVars == <<returned, make_tools, monday_tools, agent>>
mainVars == <<sessions, session, created, session_id, user_id>>
turnVars == <<user, seen, final_response, out, turn_end, run_args, uncaught>>

vars == <<pc, last_call, envVars, netVars, bundleVars, mainVars, turnVars>>

\* ------------------------------------------------------------------ bounds
MaxTools == 2          \* longest "tools" list a manifest carries
MaxProgramTools == 1   \* longest "tools" list in the two-provider start-up
MaxEvents == 2         \* most events one response stream yields

\* ------------------------------------------------------- program constants
MAKE_ENDPOINT == "https://us2.make.com/mcp/api/v1/u/12508d4f-a637-469c-8821-9c16667c0f41/sse"
MONDAY_ENDPOINT == "https://mcp.monday.com/sse"
MAKE_PREFIX == "make"
MONDAY_PREFIX == "monday"
GET_TIMEOUT == 10
POST_TIMEOUT == 15
SESSION_ID == "cli"
USER_ID == "dev"
APP_NAME == "monday_bot"
PLACEHOLDER == "No response received."
BANNER == "Monday-bot ready.  Type 'quit' to exit."
HINT == "Please make sure your GOOGLE_API_KEY is set and the MCP endpoints are accessible."

\* ------------------------------------------------- python values: headers
\* An optional dict: None, or a dict given as its set of <<key, value>> items.
NoneValue == [none |-> TRUE, items |-> {}]
Dict(items) == [none |-> FALSE, items |-> items]

\* python truthiness of an optional dict: None and {} are falsy
Truthy(h) == ~h.none /\ h.items # {}

\* headers = headers or {}
HeadersOrEmpty(h) == IF Truthy(h) THEN h ELSE Dict({})

\* monday_headers = {"Authorization": f"Bearer {monday_token}"} if monday_token else {}
monday_headers_of(token) ==
    IF token # "" THEN Dict({<<"Authorization", "Bearer " \o token>>}) ELSE Dict({})

\* ------------------------------------------------------- manifest entries
EntryA == [name |-> "create_item", description |-> "x", inputSchema |-> "schemaA"]
EntryB == [name |-> "list_boards", description |-> "y", inputSchema |-> "schemaB"]
NoName == [description |-> "x", inputSchema |-> "schemaA"]
NoDescription == [name |-> "create_item", inputSchema |-> "schemaA"]
NoSchema == [name |-> "create_item", description |-> "x"]
Entries == {EntryA, EntryB, NoName, NoDescription, NoSchema}

RECURSIVE SeqsUpTo(_, _)
SeqsUpTo(S, n) ==
    IF n = 0 THEN {<<>>}
    ELSE LET shorter == SeqsUpTo(S, n - 1)
         IN  shorter \cup {Append(s, e) : s \in {q \in shorter : Len(q) = n - 1}, e \in S}

\* ------------------------------------------------ responses to GET /mcp
\* kind "neterror"/"timeout": requests.get raises; kind "http": a response with
\* a status and a body.  body.type: "nonjson" (not JSON), "array" (JSON, but not
\* an object), "object"; an object may lack "tools", carry "tools": null, or
\* carry a list of entries.
Body(type, has_tools, iterable, tools) ==
    [type |-> type, has_tools |-> has_tools, iterable |-> iterable, tools |-> tools]
Http(status, body) == [kind |-> "http", status |-> status, body |-> body]
NoResponse(kind) == [kind |-> kind, status |-> 0, body |-> Body("nonjson", FALSE, FALSE, <<>>)]

Statuses == {200, 500}

Bodies(n) ==
    {Body("nonjson", FALSE, FALSE, <<>>), Body("array", FALSE, FALSE, <<>>),
     Body("object", FALSE, FALSE, <<>>), Body("object", TRUE, FALSE, <<>>)}
    \cup {Body("object", TRUE, TRUE, ts) : ts \in SeqsUpTo(Entries, n)}

Responses(n) ==
    {NoResponse("neterror"), NoResponse("timeout")}
    \cup {Http(s, b) : s \in Statuses, b \in Bodies(n)}

\* ----------------------------------------------------------- json.loads
\* Argument text is a sequence of lexemes.  Parsed values are records of one
\* shape: type "num", "str", "lit", "arr", "obj"; an object's items are
\* "pair" records in insertion order.
JVal(type, num, str, items) == [type |-> type, num |-> num, str |-> str, items |-> items]
JNum(n) == JVal("num", n, "", <<>>)
JStr(s) == JVal("str", 0, s, <<>>)
JLit(s) == JVal("lit", 0, s, <<>>)
JArr(items) == JVal("arr", 0, "", items)
JPair(k, v) == JVal("pair", 0, k, <<v>>)
JObj(pairs) == JVal("obj", 0, "", pairs)

NumTokens == {"1", "2"}
NumOf(tok) == IF tok = "1" THEN 1 ELSE 2
StrTokens == {"\"k\"", "\"board_id\""}
StrOf(tok) == IF tok = "\"k\"" THEN "k" ELSE "board_id"
LitTokens == {"null", "true"}
Whitespace == {" "}

ParseFail == [ok |-> FALSE, val |-> JLit(""), next |-> 0]
ParseOk(v, n) == [ok |-> TRUE, val |-> v, next |-> n]

\* dict[key] = value: a repeated key keeps its position and takes the new value
DictSet(pairs, k, v) ==
    IF \E i \in 1..Len(pairs) : pairs[i].str = k
    THEN [i \in 1..Len(pairs) |-> IF pairs[i].str = k THEN JPair(k, v) ELSE pairs[i]]
    ELSE Append(pairs, JPair(k, v))

Tok(toks, i) == IF i \in 1..Len(toks) THEN toks[i] ELSE "<eof>"

RECURSIVE ParseValue(_, _), ParseElems(_, _, _), ParseMembers(_, _, _)
ParseValue(toks, i) ==
    LET tok == Tok(toks, i) IN
    IF tok \in NumTokens THEN ParseOk(JNum(NumOf(tok)), i + 1)
    ELSE IF tok \in StrTokens THEN ParseOk(JStr(StrOf(tok)), i + 1)
    ELSE IF tok \in LitTokens THEN ParseOk(JLit(tok), i + 1)
    ELSE IF tok = "[" THEN
        IF Tok(toks, i + 1) = "]" THEN ParseOk(JArr(<<>>), i + 2)
        ELSE ParseElems(toks, i + 1, <<>>)
    ELSE IF tok = "{" THEN
        IF Tok(toks, i + 1) = "}" THEN ParseOk(JObj(<<>>), i + 2)
        ELSE ParseMembers(toks, i + 1, <<>>)
    ELSE ParseFail

ParseElems(toks, i, acc) ==
    LET v == ParseValue(toks, i) IN
    IF ~v.ok THEN ParseFail
    ELSE IF Tok(toks, v.next) = "," THEN ParseElems(toks, v.next + 1, Append(acc, v.val))
    ELSE IF Tok(toks, v.next) = "]" THEN ParseOk(JArr(Append(acc, v.val)), v.next + 1)
    ELSE ParseFail

ParseMembers(toks, i, acc) ==
    IF Tok(toks, i) \notin StrTokens \/ Tok(toks, i + 1) # ":" THEN ParseFail
    ELSE LET v == ParseValue(toks, i + 2) IN
         IF ~v.ok THEN ParseFail
         ELSE LET acc2 == DictSet(acc, StrOf(toks[i]), v.val) IN
              IF Tok(toks, v.next) = "," THEN ParseMembers(toks, v.next + 1, acc2)
              ELSE IF Tok(toks, v.next) = "}" THEN ParseOk(JObj(acc2), v.next + 1)
              ELSE ParseFail

\* json.loads(input_json): whitespace between lexemes is skipped, the whole
\* text must be one value; anything else raises JSONDecodeError
json_loads(text) ==
    LET toks == SelectSeq(text, LAMBDA c : c \notin Whitespace)
        r == ParseValue(toks, 1)
    IN  IF r.ok /\ r.next = Len(toks) + 1
        THEN [raised |-> "", value |-> r.val]
        ELSE [raised |-> "JSONDecodeError", value |-> JLit("")]

ArgTexts ==
    { <<"{", "}">>,
      <<"{", "\"board_id\"", ":", " ", "1", "}">>,
      <<"{", "\"k\"", ":", "1", ",", "\"k\"", ":", "2", "}">>,
      <<"[", "1", ",", "2", "]">>,
      <<"1">>,
      <<"\"k\"">>,
      <<"null">>,
      <<>>,
      <<"list", " ", "my", " ", "boards">>,
      <<"{", "\"k\"", ":", "1">>,
      <<"1", " ", "2">> }

\* ------------------------------------------------------ build_sse_tools
\* f"{endpoint}/mcp"
McpUrl(endpoint) == endpoint \o "/mcp"

\* f"{endpoint}/call"
CallUrl(endpoint) == endpoint \o "/call"

\* a slip in the name format: the separator left out
ToolName_NoSeparator(name_prefix, t) == name_prefix \o t.name

\* tool_name = f"{name_prefix}_{t['name']}"
ToolName(name_prefix, t) == name_prefix \o "_" \o t.name

\* def make_call ... ; make_call.__name__ = tool_name: a closure over the
\* variables endpoint, headers and t of the enclosing call, named by that call
Closure(frame_id, tool_name) == [frame |-> frame_id, name |-> tool_name]

\* FunctionTool(function=make_call, name=tool_name,
\*              description=t["description"], parameters=t["inputSchema"])
FunctionTool(function, name, description, parameters) ==
    [function |-> function, name |-> name,
     description |-> description, parameters |-> parameters]

\* a slip in the lookup: handshake["tools"] in place of handshake.get("tools", [])
HandshakeExc_ToolsRequired(resp) ==
    IF resp.kind = "neterror" THEN "ConnectionError"
    ELSE IF resp.kind = "timeout" THEN "Timeout"
    ELSE IF resp.body.type = "nonjson" THEN "JSONDecodeError"
    ELSE IF resp.body.type = "array" THEN "AttributeError"
    ELSE IF ~resp.body.has_tools THEN "KeyError"
    ELSE IF ~resp.body.iterable THEN "TypeError"
    ELSE ""

\* the exception requests.get(...).json() and handshake.get("tools", [])
\* raise for a response, "" when they raise none
HandshakeExc(resp) ==
    IF resp.kind = "neterror" THEN "ConnectionError"
    ELSE IF resp.kind = "timeout" THEN "Timeout"
    ELSE IF resp.body.type = "nonjson" THEN "JSONDecodeError"
    ELSE IF resp.body.type = "array" THEN "AttributeError"
    ELSE IF resp.body.has_tools /\ ~resp.body.iterable THEN "TypeError"
    ELSE ""

\* handshake.get("tools", [])
HandshakeTools(resp) == IF resp.body.has_tools THEN resp.body.tools ELSE <<>>

\* for t in handshake.get("tools", []): ... tools.append(FunctionTool(...))
\* t is the loop variable of the enclosing call; every closure reads it later
RECURSIVE ToolLoop(_, _, _, _, _, _)
ToolLoop(entries, i, tools, t, name_prefix, frame_id) ==
    IF i > Len(entries) THEN [exc |-> "", tools |-> tools, t |-> t]
    ELSE LET e == entries[i] IN
         IF {"name", "description", "inputSchema"} \subseteq DOMAIN e
         THEN LET tool_name == ToolName(name_prefix, e)
                  tool == FunctionTool(Closure(frame_id, tool_name), tool_name,
                                       e.description, e.inputSchema)
              IN  ToolLoop(entries, i + 1, Append(tools, tool), <<e>>, name_prefix, frame_id)
         ELSE [exc |-> "KeyError", tools |-> tools, t |-> <<e>>]

\* logging.warning(f"Failed to load tools from {endpoint}: {e}")
Warning(endpoint, exc) == [level |-> "WARNING", endpoint |-> endpoint, exc |-> exc]

\* build_sse_tools(endpoint, name_prefix, headers) against a remote end that
\* answers resp: the list returned, the warnings logged, the GET issued and
\* the closure environment the returned stubs share
build_sse_tools(endpoint, name_prefix, headers, resp, frame_id) ==
    LET h == HeadersOrEmpty(headers)
        get == [method |-> "GET", url |-> McpUrl(endpoint), headers |-> h,
                timeout |-> GET_TIMEOUT]
        hexc == HandshakeExc(resp)
        loop == IF hexc # "" THEN [exc |-> hexc, tools |-> <<>>, t |-> <<>>]
                ELSE ToolLoop(HandshakeTools(resp), 1, <<>>, <<>>, name_prefix, frame_id)
    IN  [tools |-> IF loop.exc = "" THEN loop.tools ELSE <<>>,
         warnings |-> IF loop.exc = "" THEN <<>> ELSE <<Warning(endpoint, loop.exc)>>,
         get |-> get,
         frame |-> [endpoint |-> endpoint, headers |-> h, t |-> loop.t]]

\* -------------------------------------------------------------- make_call
\* what the remote end does with POST {endpoint}/call
PostOutcomes ==
    { [kind |-> "neterror", status |-> 0, text |-> ""],
      [kind |-> "http", status |-> 200, text |-> "result"],
      [kind |-> "http", status |-> 200, text |-> ""],
      [kind |-> "http", status |-> 404, text |-> "not found"],
      [kind |-> "http", status |-> 500, text |-> "error page"] }

\* a slip in the stub: the status is never looked at
RaisesForStatus_Never(status) == FALSE

\* resp.raise_for_status()
RaisesForStatus(status) == status >= 400 /\ status < 600

\* payload = {"tool": t["name"], "arguments": json.loads(input_json)}
Payload(frame, arguments) == [tool |-> frame.t[1].name, arguments |-> arguments]

\* make_call(input_json) of a closure whose environment is frame, against a
\* remote end that answers outcome: the POSTs issued, the exception raised
\* ("" when none) and the value returned
make_call(frame, input_json, outcome) ==
    LET parsed == json_loads(input_json)
        post == [method |-> "POST", url |-> CallUrl(frame.endpoint),
                 json |-> Payload(frame, parsed.value),
                 headers |-> frame.headers, timeout |-> POST_TIMEOUT]
    IN  IF parsed.raised # ""
        THEN [posts |-> <<>>, raised |-> parsed.raised, ret |-> ""]
        ELSE IF outcome.kind # "http"
        THEN [posts |-> <<post>>, raised |-> "ConnectionError", ret |-> ""]
        ELSE IF RaisesForStatus(outcome.status)
        THEN [posts |-> <<post>>, raised |-> "HTTPError", ret |-> ""]
        ELSE [posts |-> <<post>>, raised |-> "", ret |-> outcome.text]

\* the record kept of one invocation of stub: its argument, the remote end's
\* answer and what make_call did
Invocation(stub, at, input_json, outcome) ==
    LET r == make_call(frames[stub.function.frame], input_json, outcome)
    IN  [stub |-> stub, at |-> at, input_json |-> input_json, outcome |-> outcome,
         posts |-> r.posts, raised |-> r.raised, ret |-> r.ret]

\* --------------------------------------------------------- module globals
Tokens == {"", "secret"}

\* a slip in the start-up: monday_headers passed to the Make discovery too
MakeBinding_WithMondayHeaders ==
    [endpoint |-> MAKE_ENDPOINT, name_prefix |-> MAKE_PREFIX,
     headers |-> monday_headers_of(monday_token)]

\* make_tools = build_sse_tools("https://us2.make.com/...", "make")
MakeBinding == [endpoint |-> MAKE_ENDPOINT, name_prefix |-> MAKE_PREFIX, headers |-> NoneValue]

\* monday_tools = build_sse_tools("https://mcp.monday.com/sse", "monday", monday_headers)
MondayBinding(token) ==
    [endpoint |-> MONDAY_ENDPOINT, name_prefix |-> MONDAY_PREFIX,
     headers |-> monday_headers_of(token)]

\* LlmAgent(name="monday_bot", model=..., instruction=..., tools=make_tools + monday_tools)
LlmAgent(tools) == [name |-> APP_NAME, tools |-> tools]

NoAgent == [name |-> "", tools |-> <<>>]

\* the values every specification starts from, for the variables it does not set
Blank ==
    /\ served = <<>> /\ gets = <<>> /\ frames = <<>> /\ log = <<>>
    /\ returned = <<>> /\ last_call = <<>>
    /\ sessions = {} /\ session = "unset" /\ created = 0
    /\ session_id = "unset" /\ user_id = "unset"
    /\ user = <<>> /\ seen = <<>> /\ final_response = "" /\ out = <<>>
    /\ turn_end = "" /\ run_args = <<>> /\ uncaught = ""

\* ------------------------------------------- the adapter, one call at a time
AdapterInit ==
    /\ pc = "adapter_start"
    /\ monday_token \in Tokens
    /\ call_args \in {MakeBinding, MondayBinding(monday_token)}
    /\ make_tools = <<>> /\ monday_tools = <<>> /\ agent = NoAgent
    /\ Blank

\* one call of build_sse_tools(binding) answered by resp: what it does to the
\* network, the closure environments and the log
DiscoverEffects(binding, resp) ==
    LET r == build_sse_tools(binding.endpoint, binding.name_prefix,
                             binding.headers, resp, Len(frames) + 1)
    IN  /\ served' = Append(served, resp)
        /\ gets' = Append(gets, r.get)
        /\ frames' = Append(frames, r.frame)
        /\ log' = log \o r.warnings

\* the list that call returns
Discovered(binding, resp) ==
    build_sse_tools(binding.endpoint, binding.name_prefix,
                    binding.headers, resp, Len(frames) + 1).tools

AdapterDiscover ==
    /\ pc = "adapter_start"
    /\ \E resp \in Responses(MaxTools) :
          /\ DiscoverEffects(call_args, resp)
          /\ returned' = Append(returned, Discovered(call_args, resp))
    /\ pc' = "adapter_ready"
    /\ UNCHANGED <<last_call, envVars, make_tools, monday_tools, agent, mainVars, turnVars>>

\* the same call again, the remote manifest unchanged
AdapterRediscover ==
    /\ pc = "adapter_ready"
    /\ DiscoverEffects(call_args, served[1])
    /\ returned' = Append(returned, Discovered(call_args, served[1]))
    /\ pc' = "adapter_again"
    /\ UNCHANGED <<last_call, envVars, make_tools, monday_tools, agent, mainVars, turnVars>>

\* a stub of the first returned list is invoked
AdapterInvoke ==
    /\ pc \in {"adapter_ready", "adapter_again"}
    /\ \E i \in 1..Len(returned[1]), text \in ArgTexts, o \in PostOutcomes :
          last_call' = <<Invocation(returned[1][i], i, text, o)>>
    /\ UNCHANGED <<pc, envVars, netVars, bundleVars, mainVars, turnVars>>

AdapterNext == AdapterDiscover \/ AdapterRediscover \/ AdapterInvoke

SpecAdapter == AdapterInit /\ [][AdapterNext]_vars

\* ------------------------------------------- module level: the two bundles
NoBinding == [endpoint |-> "", name_prefix |-> "", headers |-> NoneValue]

Init ==
    /\ pc = "start"
    /\ monday_token \in Tokens
    /\ call_args = NoBinding
    /\ make_tools = <<>> /\ monday_tools = <<>> /\ agent = NoAgent
    /\ Blank

\* make_tools = build_sse_tools("https://us2.make.com/...", "make")
BuildMakeTools ==
    /\ pc = "start"
    /\ \E resp \in Responses(MaxProgramTools) :
          /\ DiscoverEffects(MakeBinding, resp)
          /\ make_tools' = Discovered(MakeBinding, resp)
    /\ pc' = "make_built"
    /\ UNCHANGED <<last_call, envVars, returned, monday_tools, agent, mainVars, turnVars>>

\* monday_tools = build_sse_tools("https://mcp.monday.com/sse", "monday", monday_headers)
BuildMondayTools ==
    /\ pc = "make_built"
    /\ \E resp \in Responses(MaxProgramTools) :
          /\ DiscoverEffects(MondayBinding(monday_token), resp)
          /\ monday_tools' = Discovered(MondayBinding(monday_token), resp)
    /\ pc' = "monday_built"
    /\ UNCHANGED <<last_call, envVars, returned, make_tools, agent, mainVars, turnVars>>

\* agent = LlmAgent(..., tools=make_tools + monday_tools)
CreateAgent ==
    /\ pc = "monday_built"
    /\ agent' = LlmAgent(make_tools \o monday_tools)
    /\ pc' = "agent_ready"
    /\ UNCHANGED <<last_call, envVars, netVars, returned, make_tools, monday_tools, mainVars, turnVars>>

\* the argument texts the runtime passes in the two-provider start-up
ProgramArgTexts ==
    { <<"{", "\"board_id\"", ":", " ", "1", "}">>,
      <<"list", " ", "my", " ", "boards">> }

\* the agent runtime invokes one of the registered stubs
RuntimeInvoke ==
    /\ pc = "agent_ready"
    /\ \E i \in 1..Len(agent.tools), text \in ProgramArgTexts, o \in PostOutcomes :
          last_call' = <<Invocation(agent.tools[i], i, text, o)>>
    /\ UNCHANGED <<pc, envVars, netVars, bundleVars, mainVars, turnVars>>

Next == BuildMakeTools \/ BuildMondayTools \/ CreateAgent \/ RuntimeInvoke

Spec == Init /\ [][Next]_vars

\* ------------------------------------------------------------ main()
\* str.strip(): leading and trailing whitespace characters are removed
StripChars == {" ", "\t"}

RECURSIVE LStrip(_)
LStrip(line) ==
    IF line # <<>> /\ Head(line) \in StripChars THEN LStrip(Tail(line)) ELSE line

RECURSIVE RStrip(_)
RStrip(line) ==
    IF line # <<>> /\ line[Len(line)] \in StripChars
    THEN RStrip(SubSeq(line, 1, Len(line) - 1)) ELSE line

Strip(line) == RStrip(LStrip(line))

\* str.lower(): every upper-case letter becomes its lower-case letter
UpperLetters == <<"A", "B", "C", "D", "E", "F", "G", "H", "I", "J", "K", "L", "M",
                  "N", "O", "P", "Q", "R", "S", "T", "U", "V", "W", "X", "Y", "Z">>
LowerLetters == <<"a", "b", "c", "d", "e", "f", "g", "h", "i", "j", "k", "l", "m",
                  "n", "o", "p", "q", "r", "s", "t", "u", "v", "w", "x", "y", "z">>

LowerChar(c) ==
    IF \E i \in 1..Len(UpperLetters) : UpperLetters[i] = c
    THEN LowerLetters[CHOOSE i \in 1..Len(UpperLetters) : UpperLetters[i] = c]
    ELSE c

Lower(line) == [i \in 1..Len(line) |-> LowerChar(line[i])]

\* a slip in the comparison: the input is lower-cased but not trimmed
IsQuit_NoStrip(line) == Lower(line) \in {<<"q", "u", "i", "t">>, <<"e", "x", "i", "t">>}

\* user.strip().lower() in {"quit", "exit"}
IsQuit(line) == Lower(Strip(line)) \in {<<"q", "u", "i", "t">>, <<"e", "x", "i", "t">>}

\* the lines input("> ") may return, character by character
InputLines ==
    { <<"q", "u", "i", "t">>,
      <<"Q", "U", "I", "T">>,
      <<"e", "x", "i", "t", " ">>,
      <<" ", "\t", "E", "x", "i", "t">>,
      <<>>,
      <<" ">>,
      <<"h", "i">>,
      <<"q", "u", "i", "t", "s">>,
      <<"q", "u", " ", "i", "t">>,
      <<"e", "x", "i", "t", "!">>,
      <<"Q", "u", "i", "t", " ", "n", "o", "w">> }

\* an event of the response stream: whether it has a content attribute and
\* its value, whether it has a text attribute and its value ("" stands for
\* every falsy value)
Event(has_content, content, has_text, text) ==
    [has_content |-> has_content, content |-> content,
     has_text |-> has_text, text |-> text]

Events ==
    { Event(TRUE, "hi", FALSE, ""),
      Event(TRUE, "yo", FALSE, ""),
      Event(TRUE, "hi", TRUE, "tx"),
      Event(TRUE, "", FALSE, ""),
      Event(FALSE, "", TRUE, "tx"),
      Event(TRUE, "", TRUE, ""),
      Event(FALSE, "", FALSE, "") }

\* if hasattr(event, 'content') and event.content: final_response = event.content
\* elif hasattr(event, 'text'): final_response = event.text
OnEvent(final, event) ==
    IF event.has_content /\ event.content # "" THEN event.content
    ELSE IF event.has_text THEN event.text
    ELSE final

\* final_response or "No response received."
Reply(final) == IF final # "" THEN final ELSE PLACEHOLDER

\* session_service.create_session(session_id=..., user_id=..., app_name="monday_bot")
NewSession(sid, uid) == [session_id |-> sid, user_id |-> uid, app_name |-> APP_NAME]

\* the manifests the two providers served before main() runs
ChatStartups ==
    { << Http(200, Body("object", TRUE, TRUE, <<EntryA>>)),
         Http(200, Body("object", TRUE, TRUE, <<EntryB>>)) >>,
      << Http(200, Body("object", TRUE, TRUE, <<EntryA>>)),
         NoResponse("timeout") >> }

ChatArgTexts == { <<"{", "\"board_id\"", ":", " ", "1", "}">> }

ChatPostOutcomes ==
    { [kind |-> "http", status |-> 200, text |-> "result"],
      [kind |-> "http", status |-> 500, text |-> "error page"] }

\* the state in which asyncio.run(main()) starts: the module level has run
ChatInit ==
    /\ pc = "main_start"
    /\ monday_token = "secret"
    /\ call_args = NoBinding
    /\ \E st \in ChatStartups :
          LET r1 == build_sse_tools(MakeBinding.endpoint, MakeBinding.name_prefix,
                                    MakeBinding.headers, st[1], 1)
              mb == MondayBinding(monday_token)
              r2 == build_sse_tools(mb.endpoint, mb.name_prefix, mb.headers, st[2], 2)
          IN  /\ served = st
              /\ gets = <<r1.get, r2.get>>
              /\ frames = <<r1.frame, r2.frame>>
              /\ log = r1.warnings \o r2.warnings
              /\ make_tools = r1.tools
              /\ monday_tools = r2.tools
              /\ agent = LlmAgent(r1.tools \o r2.tools)
    /\ returned = <<>> /\ last_call = <<>>
    /\ sessions = {} /\ session = "unset" /\ created = 0
    /\ session_id = SESSION_ID /\ user_id = USER_ID
    /\ user = <<>> /\ seen = <<>> /\ final_response = "" /\ out = <<>>
    /\ turn_end = "" /\ run_args = <<>> /\ uncaught = ""

\* get_session(session_id) raises, create_session succeeds, the banner is printed
SessionCreated ==
    /\ pc = "main_start"
    /\ sessions' = sessions \cup {NewSession(session_id, user_id)}
    /\ session' = "created"
    /\ created' = created + 1
    /\ out' = <<BANNER>>
    /\ pc' = "prompt"
    /\ UNCHANGED <<last_call, envVars, netVars, bundleVars, session_id, user_id,
                   user, seen, final_response, turn_end, run_args, uncaught>>

\* get_session(session_id) raises and create_session raises too: start-up failure
SessionCreateFails ==
    /\ pc = "main_start"
    /\ uncaught' = "CreateSessionError"
    /\ pc' = "raised"
    /\ UNCHANGED <<last_call, envVars, netVars, bundleVars, mainVars,
                   user, seen, final_response, out, turn_end, run_args>>

\* get_session(session_id) returns without raising although nothing is stored:
\* the except branch is skipped, session is the empty result
SessionFetchReturnsNone ==
    /\ pc = "main_start"
    /\ session' = "None"
    /\ out' = <<BANNER>>
    /\ pc' = "prompt"
    /\ UNCHANGED <<last_call, envVars, netVars, bundleVars, sessions, created,
                   session_id, user_id,
                   user, seen, final_response, turn_end, run_args, uncaught>>

\* user = input("> ") returns a line; quit/exit breaks, anything else enters the try
ReadLine ==
    /\ pc = "prompt"
    /\ \E line \in InputLines :
          /\ user' = line
          /\ pc' = IF IsQuit(line) THEN "done" ELSE "turn"
    /\ seen' = <<>> /\ out' = <<>> /\ turn_end' = "" /\ run_args' = <<>>
    /\ last_call' = <<>>
    /\ UNCHANGED <<envVars, netVars, bundleVars, mainVars, final_response, uncaught>>

\* input("> ") raises: line 112 is outside the try, the exception leaves main()
ReadRaises ==
    /\ pc = "prompt"
    /\ \E exc \in {"EOFError", "KeyboardInterrupt"} : uncaught' = exc
    /\ pc' = "raised"
    /\ UNCHANGED <<last_call, envVars, netVars, bundleVars, mainVars,
                   user, seen, final_response, out, turn_end, run_args>>

\* a slip in the loop: no except clause, the error leaves main()
TurnFails_Propagates(exc) ==
    /\ out' = out
    /\ turn_end' = exc
    /\ uncaught' = exc
    /\ pc' = "raised"

\* except Exception as e: print(f"Error: {e}"); print("Please make sure ...");
\* the loop goes on to the next input
TurnFails(exc) ==
    /\ out' = <<"Error: " \o exc, HINT>>
    /\ turn_end' = exc
    /\ uncaught' = uncaught
    /\ pc' = "prompt"

\* events = runner.run_async(session_id=..., user_id=..., message=UserMessage(content=user))
\* final_response = ""
Forward ==
    /\ pc = "turn"
    /\ run_args' = <<[session_id |-> session_id, user_id |-> user_id, content |-> user]>>
    /\ final_response' = ""
    /\ pc' = "stream"
    /\ UNCHANGED <<last_call, envVars, netVars, bundleVars, mainVars,
                   user, seen, out, turn_end, uncaught>>

\* the import, the UserMessage constructor or run_async raises
ForwardRaises ==
    /\ pc = "turn"
    /\ \E exc \in {"ImportError", "TypeError"} : TurnFails(exc)
    /\ UNCHANGED <<last_call, envVars, netVars, bundleVars, mainVars,
                   user, seen, final_response, run_args>>

\* async for event in events: one more event
StreamEvent ==
    /\ pc = "stream"
    /\ Len(seen) < MaxEvents
    /\ \E e \in Events :
          /\ seen' = Append(seen, e)
          /\ final_response' = OnEvent(final_response, e)
    /\ UNCHANGED <<pc, last_call, envVars, netVars, bundleVars, mainVars,
                   user, out, turn_end, run_args, uncaught>>

\* the runtime invokes a registered stub while the stream is consumed; the
\* stub returns, or the runtime keeps its failure to itself
ToolCallContinues ==
    /\ pc = "stream"
    /\ \E i \in 1..Len(agent.tools), text \in ChatArgTexts, o \in ChatPostOutcomes :
          last_call' = <<Invocation(agent.tools[i], i, text, o)>>
    /\ UNCHANGED <<pc, envVars, netVars, bundleVars, mainVars, turnVars>>

\* the stub raises and the runtime lets the failure out of the stream
ToolCallPropagates ==
    /\ pc = "stream"
    /\ \E i \in 1..Len(agent.tools), text \in ChatArgTexts, o \in ChatPostOutcomes :
          LET c == Invocation(agent.tools[i], i, text, o) IN
          /\ c.raised # ""
          /\ last_call' = <<c>>
          /\ TurnFails(c.raised)
    /\ UNCHANGED <<envVars, netVars, bundleVars, mainVars,
                   user, seen, final_response, run_args>>

\* the stream raises, before the first event or between two events
StreamRaises ==
    /\ pc = "stream"
    /\ TurnFails("RuntimeError")
    /\ UNCHANGED <<last_call, envVars, netVars, bundleVars, mainVars,
                   user, seen, final_response, run_args>>

\* the stream ends: print(final_response or "No response received.")
StreamEnd ==
    /\ pc = "stream"
    /\ out' = <<Reply(final_response)>>
    /\ turn_end' = "ok"
    /\ pc' = "prompt"
    /\ UNCHANGED <<last_call, envVars, netVars, bundleVars, mainVars,
                   user, seen, final_response, run_args, uncaught>>

\* an interrupt or cancellation reaches the turn: not an Exception, so the
\* except clause lets it through and it leaves main()
TurnInterrupted ==
    /\ pc \in {"turn", "stream"}
    /\ \E exc \in {"KeyboardInterrupt", "CancelledError"} : uncaught' = exc
    /\ pc' = "raised"
    /\ UNCHANGED <<last_call, envVars, netVars, bundleVars, mainVars,
                   user, seen, final_response, out, turn_end, run_args>>

ChatNext ==
    \/ SessionCreated \/ SessionCreateFails \/ SessionFetchReturnsNone
    \/ ReadLine \/ ReadRaises
    \/ Forward \/ ForwardRaises
    \/ StreamEvent \/ ToolCallContinues \/ ToolCallPropagates
    \/ StreamRaises \/ StreamEnd \/ TurnInterrupted

SpecChat == ChatInit /\ [][ChatNext]_vars

\* ------------------------------------------------ claims about the adapter
ThreeKeys == {"name", "description", "inputSchema"}

\* a response that carries a JSON object with a "tools" list
HasToolsList(resp) ==
    /\ resp.kind = "http" /\ resp.body.type = "object"
    /\ resp.body.has_tools /\ resp.body.iterable

\* a manifest as section 6 of the specification describes it: a JSON object
\* with a "tools" list whose entries all carry name, description, inputSchema
WellFormed(resp) ==
    /\ HasToolsList(resp)
    /\ \A i \in 1..Len(resp.body.tools) : DOMAIN resp.body.tools[i] = ThreeKeys

\* a JSON object that has no "tools" key
LacksToolsKey(resp) ==
    resp.kind = "http" /\ resp.body.type = "object" /\ ~resp.body.has_tools

\* the manifest entry the invoked stub was generated from
OriginEntry(c) == served[c.stub.function.frame].body.tools[c.at]

\* C1 (as claimed): every POST a stub issues carries in "tool" the un-prefixed
\* name of the manifest entry the stub was generated from.
C1_PayloadNamesOwnEntry ==
    \A k \in 1..Len(last_call) : \A j \in 1..Len(last_call[k].posts) :
        last_call[k].posts[j].json.tool = OriginEntry(last_call[k]).name

\* C7 (as claimed): a warning is logged exactly for the failed discoveries,
\* a missing "tools" key counted as a failure, and those return no stubs.
C7_WarnsOnEveryFailure ==
    /\ Len(log) = Cardinality({k \in 1..Len(served) : ~WellFormed(served[k])})
    /\ \A k \in 1..Len(served) : ~WellFormed(served[k]) => returned[k] = <<>>

\* C7 (amended): a warning is logged exactly for the discoveries in which the
\* fetch or the walk over the entries raised; a JSON object without a "tools"
\* key is treated as an empty manifest: no stubs, no warning.
C7_WarnsExactlyWhenRaised ==
    /\ Len(log) = Cardinality({k \in 1..Len(served) :
                                  ~WellFormed(served[k]) /\ ~LacksToolsKey(served[k])})
    /\ \A k \in 1..Len(log) : log[k].level = "WARNING"
    /\ \A k \in 1..Len(served) :
          (~WellFormed(served[k]) \/ Len(served[k].body.tools) = 0) => returned[k] = <<>>

C7_Witness ==
    /\ pc = "adapter_again"
    /\ LacksToolsKey(served[1]) /\ log = <<>> /\ returned = << <<>>, <<>> >>

\* the values json.loads gives for the argument texts that are JSON
ExpectedArguments ==
    { << <<"{", "}">>, JObj(<<>>) >>,
      << <<"{", "\"board_id\"", ":", " ", "1", "}">>, JObj(<<JPair("board_id", JNum(1))>>) >>,
      << <<"{", "\"k\"", ":", "1", ",", "\"k\"", ":", "2", "}">>, JObj(<<JPair("k", JNum(2))>>) >>,
      << <<"[", "1", ",", "2", "]">>, JArr(<<JNum(1), JNum(2)>>) >>,
      << <<"1">>, JNum(1) >>,
      << <<"\"k\"">>, JStr("k") >>,
      << <<"null">>, JLit("null") >> }

IsJsonText(text) == \E e \in ExpectedArguments : e[1] = text

\* one POST to {endpoint}/call whose "arguments" is the parsed argument text
OnePostWithArguments(c) ==
    /\ Len(c.posts) = 1
    /\ c.posts[1].method = "POST"
    /\ c.posts[1].url = call_args.endpoint \o "/call"
    /\ <<c.input_json, c.posts[1].json.arguments>> \in ExpectedArguments

\* the body is returned unchanged on success, a failure is raised otherwise
ReturnsBodyOrRaises(c) ==
    /\ (c.outcome.kind = "http" /\ c.outcome.status = 200)
          => (c.raised = "" /\ c.ret = c.outcome.text)
    /\ (c.outcome.kind = "http" /\ c.outcome.status \in 400..599)
          => (c.raised = "HTTPError" /\ c.ret = "")

\* C8 (as claimed): every invocation, whatever the argument text, issues
\* exactly one POST with the parsed arguments and returns the body or raises
\* by status.
C8_AlwaysOnePost ==
    \A k \in 1..Len(last_call) :
        OnePostWithArguments(last_call[k]) /\ ReturnsBodyOrRaises(last_call[k])

\* C8 (amended): an invocation whose argument text is JSON (of any type)
\* issues exactly one POST to {endpoint}/call with the parsed arguments,
\* returns the body unchanged on a success status and raises on a non-success
\* (4xx or 5xx) status; an invocation whose argument text is not JSON raises without
\* issuing any request.
C8_OnePostWhenJson ==
    \A k \in 1..Len(last_call) :
        IF IsJsonText(last_call[k].input_json)
        THEN OnePostWithArguments(last_call[k]) /\ ReturnsBodyOrRaises(last_call[k])
        ELSE last_call[k].posts = <<>> /\ last_call[k].raised = "JSONDecodeError"

C8_Witness ==
    /\ Len(last_call) = 1
    /\ last_call[1].input_json = <<"[", "1", ",", "2", "]">>
    /\ last_call[1].outcome.status = 500
    /\ last_call[1].raised = "HTTPError"

\* C9: a well-formed manifest of n entries fetched with prefix p gives n stubs
\* in manifest order, the i-th named p + "_" + name_i with description_i; a
\* second discovery against the unchanged manifest gives the same names and
\* descriptions in the same order.
C9_StubsMirrorManifest ==
    /\ \A k \in 1..Len(returned) :
          (WellFormed(served[k]) /\ served[k].status = 200) =>
             /\ Len(returned[k]) = Len(served[k].body.tools)
             /\ \A i \in 1..Len(returned[k]) :
                   /\ returned[k][i].name
                         = call_args.name_prefix \o "_" \o served[k].body.tools[i].name
                   /\ returned[k][i].description = served[k].body.tools[i].description
                   /\ (call_args.name_prefix = "monday"
                          /\ served[k].body.tools[i].name = "create_item")
                         => returned[k][i].name = "monday_create_item"
    /\ (Len(returned) = 2 /\ WellFormed(served[1]) /\ served[1].status = 200) =>
          /\ Len(returned[2]) = Len(returned[1])
          /\ \A i \in 1..Len(returned[1]) :
                /\ returned[2][i].name = returned[1][i].name
                /\ returned[2][i].description = returned[1][i].description

C9_Witness ==
    /\ pc = "adapter_again"
    /\ served[1].status = 200
    /\ served[1].body.tools = <<EntryB, EntryA>>
    /\ Len(returned[2]) = 2
    /\ returned[2][1].name = "monday_list_boards"

\* ---------------------------------------------- claims about the start-up
\* a response that is failed or malformed: no response at all, a non-success
\* status whatever the body, or a body that is not a well-formed manifest
FailedOrMalformed(resp) == ~WellFormed(resp) \/ resp.status # 200

\* the list the k-th build_sse_tools call of the start-up returned
BundleOf(k) == IF k = 1 THEN make_tools ELSE monday_tools

\* C2 (as claimed): a failed or malformed manifest response, a non-success
\* status included, gives that provider an empty bundle; the other discovery
\* still runs and the agent is built from both bundles.
C2_FailedDiscoveryGivesNothing ==
    /\ \A k \in 1..Len(served) : FailedOrMalformed(served[k]) => BundleOf(k) = <<>>
    /\ pc = "agent_ready" => (Len(served) = 2 /\ agent.tools = make_tools \o monday_tools)

\* the headers a request may carry, by the endpoint it goes to
IsMakeUrl(url) == url \in {MAKE_ENDPOINT \o "/mcp", MAKE_ENDPOINT \o "/call"}
IsMondayUrl(url) == url \in {MONDAY_ENDPOINT \o "/mcp", MONDAY_ENDPOINT \o "/call"}
ExpectedMondayItems ==
    IF monday_token = "" THEN {} ELSE {<<"Authorization", "Bearer " \o monday_token>>}

HeadersMatchEndpoint(req) ==
    /\ ~req.headers.none
    /\ IsMakeUrl(req.url) \/ IsMondayUrl(req.url)
    /\ IsMakeUrl(req.url) => req.headers.items = {}
    /\ IsMondayUrl(req.url) => req.headers.items = ExpectedMondayItems

\* C10: every stub registered with the agent posts to the /call URL of the
\* endpoint it was discovered from, with exactly the header map given to that
\* provider's discovery; no GET /mcp or POST /call to the Make endpoint
\* carries the Monday Authorization header, and a stub discovered without
\* headers sends an empty header map.
C10_ProvidersStaySeparate ==
    /\ \A k \in 1..Len(gets) :
          /\ gets[k].method = "GET"
          /\ gets[k].url = (IF k = 1 THEN MAKE_ENDPOINT ELSE MONDAY_ENDPOINT) \o "/mcp"
          /\ HeadersMatchEndpoint(gets[k])
    /\ \A k \in 1..Len(last_call) : \A j \in 1..Len(last_call[k].posts) :
          /\ last_call[k].posts[j].url
                = (IF last_call[k].at <= Len(make_tools)
                   THEN MAKE_ENDPOINT ELSE MONDAY_ENDPOINT) \o "/call"
          /\ HeadersMatchEndpoint(last_call[k].posts[j])

C10_Witness ==
    /\ Len(last_call) = 1 /\ Len(make_tools) = 1 /\ Len(monday_tools) = 1
    /\ monday_token = "secret"
    /\ last_call[1].at = 1
    /\ Len(last_call[1].posts) = 1
    /\ last_call[1].posts[1].headers.items = {}
    /\ gets[2].headers.items = {<<"Authorization", "Bearer secret">>}

\* --------------------------------------------- claims about the chat loop
\* the input lines whose trimmed, lower-cased text is "quit" or "exit"
QuitLines ==
    { <<"q", "u", "i", "t">>,
      <<"Q", "U", "I", "T">>,
      <<"e", "x", "i", "t", " ">>,
      <<" ", "\t", "E", "x", "i", "t">> }

InLoop == pc \in {"prompt", "turn", "stream"}

\* a step in which input("> ") returned a line
LineRead == pc = "prompt" /\ pc' \in {"done", "turn"}

\* a step in which a turn raised an error
ErrorRaisedInTurn == pc \in {"turn", "stream"} /\ turn_end' \notin {"", "ok"}

\* C3 (as claimed): the loop ends only through a quit/exit input line, which
\* ends it without starting a turn; no other input line, no end-of-input or
\* interrupt raised by the read and no error of a turn ends it.
C3_OnlyQuitEndsLoop ==
    [][ /\ (InLoop /\ pc' \in {"done", "raised"})
            => (pc = "prompt" /\ pc' = "done" /\ user' \in QuitLines)
        /\ (LineRead /\ user' \in QuitLines) => (pc' = "done" /\ run_args' = <<>>)
      ]_vars

\* C3 (amended): the loop ends normally only through a quit/exit input line,
\* which ends it without starting a turn; no other input line and no error
\* raised while a turn is processed ends it; an end-of-input or interrupt
\* raised by the blocking read, or an interrupt that reaches a turn, is not
\* caught and ends the loop by leaving main().
C3_QuitOrUncaught ==
    [][ /\ (InLoop /\ pc' = "done")
            => (pc = "prompt" /\ user' \in QuitLines)
        /\ (LineRead /\ user' \in QuitLines) => (pc' = "done" /\ run_args' = <<>>)
        /\ (LineRead /\ user' \notin QuitLines) => pc' = "turn"
        /\ ErrorRaisedInTurn => pc' = "prompt"
        /\ (InLoop /\ pc' = "raised")
            => uncaught' \in {"EOFError", "KeyboardInterrupt", "CancelledError"}
        /\ (pc = "prompt" /\ pc' = "raised")
            => uncaught' \in {"EOFError", "KeyboardInterrupt"}
      ]_vars

C3_Witness ==
    /\ pc = "done"
    /\ user = <<" ", "\t", "E", "x", "i", "t">>
    /\ run_args = <<>>

\* C4: an error raised at any point of a turn (while forwarding, before the
\* first event, between events, or out of a tool stub whose remote call
\* answered a non-success status) is caught in that turn: the diagnostic is
\* printed, the loop is back at the prompt, and the session identifier and the
\* registered stubs are unchanged.
C4_TurnErrorIsContained ==
    [][ ErrorRaisedInTurn =>
            /\ pc' = "prompt"
            /\ uncaught' = ""
            /\ Len(out') = 2 /\ out'[1] = "Error: " \o turn_end' /\ out'[2] = HINT
            /\ session_id' = session_id /\ user_id' = user_id
            /\ session_id' = "cli" /\ user_id' = "dev"
            /\ agent' = agent /\ frames' = frames
      ]_vars

C4_Witness ==
    /\ pc = "prompt"
    /\ turn_end = "HTTPError"
    /\ Len(last_call) = 1 /\ last_call[1].outcome.status = 500
    /\ Len(seen) = 1
    /\ out = <<"Error: HTTPError", HINT>>

\* the text an event carries: its content when not empty, else its text
\* when not empty, else none
TextOf(event) ==
    IF event.has_content /\ event.content # "" THEN event.content
    ELSE IF event.has_text /\ event.text # "" THEN event.text
    ELSE ""

\* the events of a stream that carried text
WithText(events) == SelectSeq(events, LAMBDA e : TextOf(e) # "")

\* C5 (as claimed): a turn that completes without error prints the last
\* non-empty text its events carried, and the placeholder exactly when no
\* event carried any.
C5_PrintsLastNonEmptyText ==
    (pc = "prompt" /\ turn_end = "ok") =>
        /\ Len(out) = 1
        /\ WithText(seen) # <<>>
              => out[1] = TextOf(WithText(seen)[Len(WithText(seen))])
        /\ (out[1] = PLACEHOLDER) <=> (WithText(seen) = <<>>)

\* C6 (as claimed): whatever get_session does, once the first prompt is shown
\* exactly one session exists for ("cli", "dev"), the process has created at
\* most one, and every turn is run with that session id and user id.
C6_OneSessionAtPrompt ==
    /\ pc \in {"prompt", "turn", "stream", "done"} =>
          /\ Cardinality({x \in sessions :
                             x.session_id = "cli" /\ x.user_id = "dev"}) = 1
          /\ created <= 1
    /\ \A k \in 1..Len(run_args) :
          run_args[k].session_id = "cli" /\ run_args[k].user_id = "dev"

====
